---- MODULE Spec2Model ----
(***************************************************************************)
(* Model of AIModelManager (backend/src/ml/models/training/prediction.py): *)
(* the singleton manager, its four optional model handles, and the text    *)
(* analysis pipeline analyze_text with its helpers.                        *)
(*                                                                         *)
(* Numbers.  Python floats are modelled as exact decimal fixed-point       *)
(* integers.  Probabilities, the anomaly score and the unrounded risk      *)
(* score are counted in units of 10^-5 (Scale units per 1.0); a value      *)
(* rounded to 4 decimals is counted in units of 10^-4 and a value rounded  *)
(* to 2 decimals in units of 10^-2.  round() is Python 3's round: to the   *)
(* nearest, ties to even.                                                  *)
(*                                                                         *)
(* Text.  A Python str is a sequence of one-character strings.  A text     *)
(* argument is a record [kind, chars]: kind "str" is a real string, the    *)
(* other kinds are the non-string values a caller can pass.                *)
(*                                                                         *)
(* Models.  A handle is TRUE when it holds a model object and FALSE when   *)
(* it is None.  What a present model returns for a feature vector is an    *)
(* input of the call, drawn from a sample set of its documented range.     *)
(***************************************************************************)
EXTENDS Integers, Sequences, FiniteSets, TLC

VARIABLES
    instance,             \* AIModelManager._instance: "None" or "set"
    created,              \* number of managers constructed so far (cls())
    threat_model,         \* self.threat_model is not None
    cyberbullying_model,  \* self.cyberbullying_model is not None
    anomaly_model,        \* self.anomaly_model is not None
    escalation_model,     \* self.escalation_model is not None
    scaler,               \* self.scaler: "unfitted" or "fitted"
    language_models,      \* self.language_models: the set of its keys
    load_calls,           \* number of load_models invocations so far
    op,                   \* the operation whose call is being returned,
                          \* "none" between calls
    args,                 \* its arguments
    model_out,            \* what each model returned in it (<<>>: not called)
    esc_input,            \* the time-steps given to the escalation model in
                          \* it: <<>> when not called, else <<steps>>
    signal,               \* analyze_text's locals threat_prob, bullying_prob,
                          \* anomaly_score, escalation_pred of the last call
    outcome,              \* "ok" or the name of the exception raised
    result                \* the value returned (NoResult when it raised)

vars == <<instance, created, threat_model, cyberbullying_model,
          anomaly_model, escalation_model, scaler, language_models,
          load_calls, op, args, model_out, esc_input, signal, outcome,
          result>>

handles == <<threat_model, cyberbullying_model, anomaly_model, escalation_model>>

\* the class attribute, the manager's fields and the load counter
manager == <<instance, created, handles, scaler, language_models, load_calls>>

(***************************************************************************)
(* Bounds and sample sets                                                  *)
(***************************************************************************)
MaxPieces == 3
MaxFeatures == 12

Scale == 10 ^ 5
Half == Scale \div 2

\* class-1 probabilities a present threat classifier may return, in [0,1]
ThreatOutputs == {0, 50000, 50010, 100000}
\* class-1 probabilities a present cyberbullying classifier may return
BullyingOutputs == {0, 50000, 100000}
\* decision_function values a present anomaly detector may return, in [-1,1]
AnomalyOutputs == {0 - 100000, 0 - 50000, 0, 99980, 100000}
\* sigmoid outputs a present escalation model may return, in [0,1]
EscalationOutputs == {0, 50000, 70000, 70004, 70006, 80000, 80004, 90000}

\* arguments for direct calls of _get_recommendation
RiskSamples == {0, 3999000, 4000000, 4001000, 5999000, 6000000, 6001000,
                7999000, 8000000, 8000400, 8001000, 10000000, 12000000}
ProbSamples == {0, 50000, 80000, 80001, 80010, 100000}

Languages == {"en", "hi", "xx"}
IndicatorLanguages == {"en", "ta"}

(***************************************************************************)
(* Text                                                                    *)
(***************************************************************************)
UpperChars == <<"A","B","C","D","E","F","G","H","I","J","K","L","M",
                "N","O","P","Q","R","S","T","U","V","W","X","Y","Z">>
LowerChars == <<"a","b","c","d","e","f","g","h","i","j","k","l","m",
                "n","o","p","q","r","s","t","u","v","w","x","y","z">>

\* str.isupper() of one character
IsUpper(c) == \E i \in 1..Len(UpperChars) : UpperChars[i] = c

\* str.lower() of one character
LowerOf(c) ==
    IF IsUpper(c)
    THEN LowerChars[CHOOSE i \in 1..Len(UpperChars) : UpperChars[i] = c]
    ELSE c

\* str.lower()
Lower(text) == [i \in 1..Len(text) |-> LowerOf(text[i])]

\* needle occurs in hay starting at index i
MatchesAt(hay, needle, i) ==
    /\ i + Len(needle) - 1 <= Len(hay)
    /\ \A j \in 1..Len(needle) : hay[i + j - 1] = needle[j]

\* the left-to-right scan of Python's `needle in hay`
RECURSIVE FindFrom(_, _, _)
FindFrom(hay, needle, i) ==
    IF i + Len(needle) - 1 > Len(hay) THEN FALSE
    ELSE IF MatchesAt(hay, needle, i) THEN TRUE
    ELSE FindFrom(hay, needle, i + 1)

Contains(hay, needle) == FindFrom(hay, needle, 1)

\* any(word in text for word in words)
AnyWordIn(text, words) == \E k \in 1..Len(words) : Contains(text, words[k])

\* str.count(c)
RECURSIVE Count(_, _)
Count(text, c) ==
    IF text = <<>> THEN 0
    ELSE (IF Head(text) = c THEN 1 ELSE 0) + Count(Tail(text), c)

\* sum(1 for char in text if char.isupper())
RECURSIVE CapsCount(_)
CapsCount(text) ==
    IF text = <<>> THEN 0
    ELSE (IF IsUpper(Head(text)) THEN 1 ELSE 0) + CapsCount(Tail(text))

W_kill == <<"k","i","l","l">>
W_murder == <<"m","u","r","d","e","r">>
W_harm == <<"h","a","r","m">>
W_die == <<"d","i","e">>
W_suicide == <<"s","u","i","c","i","d","e">>
W_end_life == <<"e","n","d"," ","l","i","f","e">>

ViolentWords == <<W_kill, W_murder, W_harm>>
SelfHarmWords == <<W_die, W_suicide, W_end_life>>

\* the pieces the sample texts are concatenated from
Pieces == {W_kill, <<"K","I","L","L">>, <<"M","U","R","D","E","R">>, W_harm,
           W_die, W_suicide, <<"e","n","d">>, <<" ">>, <<"l","i","f","e">>,
           <<"!","!">>, <<"!">>, <<"a">>}

RECURSIVE TextsOf(_)
TextsOf(n) ==
    IF n = 0 THEN {<<>>}
    ELSE LET shorter == TextsOf(n - 1)
         IN  shorter \cup {t \o p : t \in shorter, p \in Pieces}

Texts == TextsOf(MaxPieces)
NonEmptyTexts == Texts \ {<<>>}

Str(chars) == [kind |-> "str", chars |-> chars]

\* the text arguments analyze_text is called with
AnalyzeTexts ==
    { Str(<<>>),
      Str(<<"a">>),
      Str(<<"I"," ","W","I","L","L"," ","K","I","L","L"," ","Y","O","U",
            "!","!","!","!">>),
      Str(<<"e","n","d"," ","l","i","f","e","!","!","!">>),
      [kind |-> "NoneType", chars |-> <<>>],
      [kind |-> "int", chars |-> <<>>],
      [kind |-> "list", chars |-> <<"a">>],
      [kind |-> "bytes", chars |-> <<>>],
      [kind |-> "bytes", chars |-> <<"a">>] }

(***************************************************************************)
(* Rounding                                                                *)
(***************************************************************************)
\* round(x, n): x counted in units u, the result in units u * d
Round(x, d) ==
    LET q == x \div d
        r == x % d
    IN  IF 2 * r < d THEN q
        ELSE IF 2 * r > d THEN q + 1
        ELSE IF q % 2 = 0 THEN q ELSE q + 1

Round2(x) == Round(x, 1000)
Round4(x) == Round(x, 10)

(***************************************************************************)
(* _get_recommendation: risk_score and escalation_prob in units of 10^-5   *)
(***************************************************************************)
\* as _get_recommendation with the top tier's bounds inclusive
GetRecommendationInclusive(risk_score, escalation_prob) ==
    IF risk_score >= 80 * Scale \/ escalation_prob >= (8 * Scale) \div 10
    THEN "IMMEDIATE_ESCALATION"
    ELSE IF risk_score > 60 * Scale THEN "SCHEDULE_POLICE_REVIEW"
    ELSE IF risk_score > 40 * Scale THEN "MONITOR_CLOSELY"
    ELSE "SAFE_ZONE"

GetRecommendation(risk_score, escalation_prob) ==
    IF risk_score > 80 * Scale \/ escalation_prob > (8 * Scale) \div 10
    THEN "IMMEDIATE_ESCALATION"
    ELSE IF risk_score > 60 * Scale THEN "SCHEDULE_POLICE_REVIEW"
    ELSE IF risk_score > 40 * Scale THEN "MONITOR_CLOSELY"
    ELSE "SAFE_ZONE"

(***************************************************************************)
(* _extract_indicators: [exc, value]; language is not read                 *)
(***************************************************************************)
\* as _extract_indicators with each indicator put in front of the list
ExtractIndicatorsPrepending(text, language) ==
    LET text_lower == Lower(text)
        i1 == IF AnyWordIn(text_lower, ViolentWords)
              THEN <<"Violent language detected">> ELSE <<>>
        i2 == IF AnyWordIn(text_lower, SelfHarmWords)
              THEN <<"Self-harm references detected">> \o i1 ELSE i1
        i3 == IF Count(text_lower, "!") > 3
              THEN <<"Excessive exclamation marks">> \o i2 ELSE i2
    IN  IF Len(text) = 0
        THEN [exc |-> "ZeroDivisionError", value |-> <<>>]
        ELSE [exc |-> "none",
              value |-> IF 2 * CapsCount(text) > Len(text)
                        THEN <<"Excessive capitalization (shouting)">> \o i3
                        ELSE i3]

\* as _extract_indicators searching the text as given, not lowercased
ExtractIndicatorsCaseSensitive(text, language) ==
    LET i1 == IF AnyWordIn(text, ViolentWords)
              THEN <<"Violent language detected">> ELSE <<>>
        i2 == IF AnyWordIn(text, SelfHarmWords)
              THEN Append(i1, "Self-harm references detected") ELSE i1
        i3 == IF Count(text, "!") > 3
              THEN Append(i2, "Excessive exclamation marks") ELSE i2
    IN  IF Len(text) = 0
        THEN [exc |-> "ZeroDivisionError", value |-> <<>>]
        ELSE [exc |-> "none",
              value |-> IF 2 * CapsCount(text) > Len(text)
                        THEN Append(i3, "Excessive capitalization (shouting)")
                        ELSE i3]

ExtractIndicators(text, language) ==
    LET text_lower == Lower(text)
        i1 == IF AnyWordIn(text_lower, ViolentWords)
              THEN <<"Violent language detected">> ELSE <<>>
        i2 == IF AnyWordIn(text_lower, SelfHarmWords)
              THEN Append(i1, "Self-harm references detected") ELSE i1
        i3 == IF Count(text_lower, "!") > 3
              THEN Append(i2, "Excessive exclamation marks") ELSE i2
    IN  IF Len(text) = 0
        THEN \* sum(...) / len(text) divides by zero
             [exc |-> "ZeroDivisionError", value |-> <<>>]
        ELSE \* caps / len > 0.5
             [exc |-> "none",
              value |-> IF 2 * CapsCount(text) > Len(text)
                        THEN Append(i3, "Excessive capitalization (shouting)")
                        ELSE i3]

(***************************************************************************)
(* _extract_text_features: the exception it raises for a text argument,    *)
(* "none" when it returns                                                  *)
(***************************************************************************)
FeaturesExc(text) ==
    CASE text.kind = "str" -> "none"
      [] text.kind = "NoneType" -> "TypeError"        \* len(None)
      [] text.kind = "int" -> "TypeError"             \* len(5)
      [] text.kind = "list" -> "AttributeError"       \* list has no split
      [] text.kind = "bytes" ->
            IF Len(text.chars) > 0
            THEN "AttributeError"                     \* int has no isupper
            ELSE "TypeError"                          \* bytes.count(str)

(***************************************************************************)
(* _extract_text_features and _get_threat_keywords.  A character outside   *)
(* ASCII is written as its code point, "U+092E".  A ratio feature n / d is *)
(* the pair <<n, d>>.                                                      *)
(***************************************************************************)
\* characters str.split() separates words at
WhiteSpace == {" ", "\t", "\n"}

\* str.split(): the maximal runs of non-whitespace characters, in order
RECURSIVE SplitInto(_, _, _)
SplitInto(text, word, words) ==
    IF text = <<>>
    THEN IF word = <<>> THEN words ELSE Append(words, word)
    ELSE IF Head(text) \in WhiteSpace
    THEN SplitInto(Tail(text), <<>>,
                   IF word = <<>> THEN words ELSE Append(words, word))
    ELSE SplitInto(Tail(text), Append(word, Head(text)), words)

Split(text) == SplitInto(text, <<>>, <<>>)

\* the keys of the keywords dict
SupportedLanguages == {"en", "hi", "ta", "te", "ml", "kn", "mr", "bn", "gu",
                       "pa", "or", "ur"}

\* keywords[language]
ThreatKeywordTable(language) ==
    CASE language = "en" ->
         {<<"k", "i", "l", "l">>,
          <<"h", "u", "r", "t">>,
          <<"d", "i", "e">>,
          <<"t", "h", "r", "e", "a", "t">>,
          <<"h", "a", "r", "m">>,
          <<"d", "a", "n", "g", "e", "r">>,
          <<"a", "t", "t", "a", "c", "k">>}
      [] language = "hi" ->
         {<<"U+092E", "U+093E", "U+0930">>,
          <<"U+091A", "U+094B", "U+091F">>,
          <<"U+0916", "U+0924", "U+0930", "U+093E">>,
          <<"U+0939", "U+093E", "U+0928", "U+093F">>,
          <<"U+0927", "U+092E", "U+0915", "U+0940">>}
      [] language = "ta" ->
         {<<"U+0B95", "U+0BCA", "U+0BB2", "U+0BCD">>,
          <<"U+0B95", "U+0BBE", "U+0BAF", "U+0BAE", "U+0BCD">>,
          <<"U+0B85", "U+0BAA", "U+0BBE", "U+0BAF", "U+0BAE", "U+0BCD">>,
          <<"U+0BA4", "U+0BC0", "U+0B99", "U+0BCD", "U+0B95", "U+0BC1">>}
      [] language = "te" ->
         {<<"U+0C1A", "U+0C02", "U+0C2A", "U+0C41">>,
          <<"U+0C17", "U+0C3E", "U+0C2F", "U+0C02">>,
          <<"U+0C2A", "U+0C4D", "U+0C30", "U+0C2E", "U+0C3E", "U+0C26", "U+0C02">>,
          <<"U+0C28", "U+0C37", "U+0C4D", "U+0C1F", "U+0C02">>}
      [] language = "ml" ->
         {<<"U+0D15", "U+0D4A", "U+0D32", "U+0D4D", "U+0D32", "U+0D41", "U+0D15">>,
          <<"U+0D2A", "U+0D30", "U+0D3F", "U+0D15", "U+0D4D", "U+0D15", "U+0D4D">>,
          <<"U+0D05", "U+0D2A", "U+0D15", "U+0D1F", "U+0D02">>,
          <<"U+0D28", "U+0D37", "U+0D4D", "U+0D1F", "U+0D02">>}
      [] language = "kn" ->
         {<<"U+0C95", "U+0CCA", "U+0CB2", "U+0CCD", "U+0CB2", "U+0CC1">>,
          <<"U+0C97", "U+0CBE", "U+0CAF">>,
          <<"U+0C85", "U+0CAA", "U+0CBE", "U+0CAF">>,
          <<"U+0CA8", "U+0CB7", "U+0CCD", "U+0C9F">>}
      [] language = "mr" ->
         {<<"U+092E", "U+093E", "U+0930">>,
          <<"U+0907", "U+091C", "U+093E">>,
          <<"U+0927", "U+094B", "U+0915", "U+093E">>,
          <<"U+0928", "U+0941", "U+0915", "U+0938", "U+093E", "U+0928">>}
      [] language = "bn" ->
         {<<"U+09B9", "U+09A4", "U+09CD", "U+09AF", "U+09BE">>,
          <<"U+0986", "U+0998", "U+09BE", "U+09A4">>,
          <<"U+09AC", "U+09BF", "U+09AA", "U+09A6">>,
          <<"U+0995", "U+09CD", "U+09B7", "U+09A4", "U+09BF">>}
      [] language = "gu" ->
         {<<"U+0AAE", "U+0ABE", "U+0AB0", "U+0AC0">>,
          <<"U+0A88", "U+0A9C", "U+0ABE">>,
          <<"U+0A96", "U+0AA4", "U+0AB0", "U+0ACB">>,
          <<"U+0AA8", "U+0AC1", "U+0A95", "U+0AB8", "U+0ABE", "U+0AA8">>}
      [] language = "pa" ->
         {<<"U+0A2E", "U+0A3E", "U+0A30">>,
          <<"U+0A1A", "U+0A4B", "U+0A1F">>,
          <<"U+0A16", "U+0A24", "U+0A30", "U+0A3E">>,
          <<"U+0A28", "U+0A41", "U+0A15", "U+0A38", "U+0A3E", "U+0A28">>}
      [] language = "or" ->
         {<<"U+0B2E", "U+0B3E", "U+0B30">>,
          <<"U+0B06", "U+0B18", "U+0B3E", "U+0B24">>,
          <<"U+0B2C", "U+0B3F", "U+0B2A", "U+0B26">>,
          <<"U+0B15", "U+0B4D", "U+0B37", "U+0B24", "U+0B3F">>}
      [] language = "ur" ->
         {<<"U+0645", "U+0627", "U+0631">>,
          <<"U+0686", "U+0648", "U+0679">>,
          <<"U+062E", "U+0637", "U+0631", "U+06C1">>,
          <<"U+0646", "U+0642", "U+0635", "U+0627", "U+0646">>}

\* as _get_threat_keywords with no keywords for an unknown language
GetThreatKeywordsNoFallback(language) ==
    IF language \in SupportedLanguages
    THEN ThreatKeywordTable(language)
    ELSE {}

\* keywords.get(language, keywords['en'])
GetThreatKeywords(language) ==
    IF language \in SupportedLanguages
    THEN ThreatKeywordTable(language)
    ELSE ThreatKeywordTable("en")

PositiveWords == {<<"g", "o", "o", "d">>,
                  <<"h", "a", "p", "p", "y">>,
                  <<"g", "r", "e", "a", "t">>,
                  <<"l", "o", "v", "e">>,
                  <<"l", "i", "k", "e">>}
NegativeWords == {<<"b", "a", "d">>,
                  <<"h", "a", "t", "e">>,
                  <<"k", "i", "l", "l">>,
                  <<"h", "u", "r", "t">>,
                  <<"d", "a", "n", "g", "e", "r">>}

\* sum(1 for word in words if word in wordset)
CountIn(words, wordset) ==
    Cardinality({i \in 1..Len(words) : words[i] \in wordset})

\* len(set(words))
DistinctCount(words) == Cardinality({words[i] : i \in 1..Len(words)})

\* as max(n, 1) without the floor
Floor1Missing(n) == n

\* max(n, 1)
Floor1(n) == IF n > 1 THEN n ELSE 1

\* as the capitalization ratio taken per word instead of per character
CapsRatioPerWord(text) == <<CapsCount(text), Floor1(Len(Split(text)))>>

\* caps_count / max(len(text), 1)
CapsRatio(text) == <<CapsCount(text), Floor1(Len(text))>>

\* sum(1 for i in range(len(text)-2) if text[i] == text[i+1] == text[i+2])
Repeated(text) ==
    Cardinality({i \in 1..(Len(text) - 2) :
                    text[i] = text[i + 1] /\ text[i + 1] = text[i + 2]})

\* as _extract_text_features without the question-mark count
ExtractTextFeaturesNoQuestion(text, language) ==
    LET words == Split(text)
        lower_words == Split(Lower(text))
        threat_count == CountIn(lower_words, GetThreatKeywords(language))
        pos_count == CountIn(lower_words, PositiveWords)
        neg_count == CountIn(lower_words, NegativeWords)
    IN  [exc |-> "none",
         value |-> << Len(text),
                      Len(words),
                      <<DistinctCount(words), Floor1(Len(words))>>,
                      threat_count,
                      <<threat_count, Floor1(Len(words))>>,
                      pos_count,
                      neg_count,
                      neg_count - pos_count,
                      CapsRatio(text),
                      Count(text, "!"),
                      Repeated(text) >>]

\* _extract_text_features of a str: [exc, value]
ExtractTextFeatures(text, language) ==
    LET words == Split(text)
        lower_words == Split(Lower(text))
        threat_count == CountIn(lower_words, GetThreatKeywords(language))
        pos_count == CountIn(lower_words, PositiveWords)
        neg_count == CountIn(lower_words, NegativeWords)
        caps_ratio == CapsRatio(text)
    IN  IF Floor1(Len(words)) = 0 \/ caps_ratio[2] = 0
        THEN [exc |-> "ZeroDivisionError", value |-> <<>>]
        ELSE [exc |-> "none",
              value |-> << Len(text),
                           Len(words),
                           <<DistinctCount(words), Floor1(Len(words))>>,
                           threat_count,
                           <<threat_count, Floor1(Len(words))>>,
                           pos_count,
                           neg_count,
                           neg_count - pos_count,
                           caps_ratio,
                           Count(text, "!"),
                           Count(text, "?"),
                           Repeated(text) >>]

\* the pieces the sample texts of _extract_text_features are made of
FeaturePieces == {W_kill, <<"K","I","L","L">>, W_harm,
                  <<"g","o","o","d">>, <<"h","a","t","e">>, <<" ">>,
                  <<"!">>, <<"?">>, <<"a","a">>,
                  <<"U+092E", "U+093E", "U+0930">>}

RECURSIVE FeatureTextsOf(_)
FeatureTextsOf(n) ==
    IF n = 0 THEN {<<>>}
    ELSE LET shorter == FeatureTextsOf(n - 1)
         IN  shorter \cup {t \o p : t \in shorter, p \in FeaturePieces}

FeatureTexts == FeatureTextsOf(MaxPieces)
FeatureLanguages == {"en", "hi", "ta", "xx"}

(***************************************************************************)
(* predict_escalation                                                      *)
(***************************************************************************)
\* as the reshaping keeping the last 10 steps of a longer vector
EscalationInputKeepsLast(features) ==
    LET n == Len(features)
    IN  IF n < 10 THEN features \o [i \in 1..(10 - n) |-> 0]
        ELSE IF n > 10 THEN SubSeq(features, n - 9, n)
        ELSE features

\* the (1, 10, 1) array given to the model: zero-padded at the end when
\* shorter than 10, cut after the 10th step when longer
EscalationInput(features) ==
    LET n == Len(features)
    IN  IF n < 10 THEN features \o [i \in 1..(10 - n) |-> 0]
        ELSE IF n > 10 THEN SubSeq(features, 1, 10)
        ELSE features

\* the feature lists predict_escalation is called with directly
FeatureLists ==
    {[i \in 1..n |-> v * i] : n \in 0..MaxFeatures, v \in {1, 5}}

(***************************************************************************)
(* analyze_text                                                            *)
(***************************************************************************)
NoResult == <<>>
NoCalls == [threat |-> <<>>, bullying |-> <<>>, anomaly |-> <<>>,
            escalation |-> <<>>]

\* what a call of a handle returns: nothing when the handle is None
Returns(present, outputs) ==
    IF present THEN {<<v>> : v \in outputs} ELSE {<<>>}

\* as the threat fallback with 0 for the default
ThreatProbZeroDefault(out) == IF threat_model THEN out[1] ELSE 0

\* `model.predict_proba(...)[0][1] if model else 0.5`
ThreatProb(out) == IF threat_model THEN out[1] ELSE Half
BullyingProb(out) == IF cyberbullying_model THEN out[1] ELSE Half
\* `model.decision_function(...)[0] if model else 0`
AnomalyScore(out) == IF anomaly_model THEN out[1] ELSE 0
\* predict_escalation
PredictEscalation(out) == IF escalation_model THEN out[1] ELSE Half

\* as the risk score with the anomaly score entering directly
RiskScoreAnomalyDirect(threat_prob, bullying_prob, anomaly_score) ==
    40 * threat_prob + 40 * bullying_prob + 20 * anomaly_score

\* (threat*0.4 + bullying*0.4 + (1 - anomaly)*0.2) * 100, in units of 10^-5
RiskScore(threat_prob, bullying_prob, anomaly_score) ==
    40 * threat_prob + 40 * bullying_prob + 20 * (Scale - anomaly_score)

\* the dict analyze_text returns
AnalysisResult(s, indicators) ==
    LET risk_score == RiskScore(s.threat, s.bullying, s.anomaly)
    IN  [risk_score |-> Round2(risk_score),
         threat_probability |-> Round4(s.threat),
         bullying_probability |-> Round4(s.bullying),
         anomaly_score |-> Round4(s.anomaly),
         escalation_predicted |-> s.escalation > (7 * Scale) \div 10,
         escalation_probability |-> Round4(s.escalation),
         key_indicators |-> indicators,
         recommended_action |-> GetRecommendation(risk_score, s.escalation)]

\* as analyze_text fitting the scaler on the features it extracted
AnalyzeFrameFitsScaler ==
    /\ scaler' = "fitted"
    /\ UNCHANGED <<instance, created, handles, language_models, load_calls>>

\* analyze_text assigns to no attribute of self or of the class
AnalyzeFrame == UNCHANGED manager

AnalyzeText ==
    /\ op = "none"
    /\ instance = "set"
    /\ \E text \in AnalyzeTexts, language \in Languages :
         /\ op' = "analyze_text"
         /\ args' = [text |-> text, language |-> language]
         /\ IF FeaturesExc(text) # "none"
            THEN /\ model_out' = NoCalls
                 /\ esc_input' = <<>>
                 /\ signal' = <<>>
                 /\ outcome' = FeaturesExc(text)
                 /\ result' = NoResult
            ELSE \E t \in Returns(threat_model, ThreatOutputs),
                    b \in Returns(cyberbullying_model, BullyingOutputs),
                    a \in Returns(anomaly_model, AnomalyOutputs),
                    e \in Returns(escalation_model, EscalationOutputs) :
                   LET s == [threat |-> ThreatProb(t),
                             bullying |-> BullyingProb(b),
                             anomaly |-> AnomalyScore(a),
                             escalation |-> PredictEscalation(e)]
                       ind == ExtractIndicators(text.chars, language)
                   IN  /\ model_out' = [threat |-> t, bullying |-> b,
                                        anomaly |-> a, escalation |-> e]
                       /\ esc_input' =
                            IF escalation_model
                            THEN <<EscalationInput(
                                     ExtractTextFeatures(text.chars,
                                                         language).value)>>
                            ELSE <<>>
                       /\ signal' = s
                       /\ IF ind.exc # "none"
                          THEN /\ outcome' = ind.exc
                               /\ result' = NoResult
                          ELSE /\ outcome' = "ok"
                               /\ result' = AnalysisResult(s, ind.value)
    /\ AnalyzeFrame

(***************************************************************************)
(* direct calls of the two pure helpers                                    *)
(***************************************************************************)
CallGetRecommendation ==
    /\ op = "none"
    /\ instance = "set"
    /\ \E risk_score \in RiskSamples, escalation_prob \in ProbSamples :
         /\ op' = "_get_recommendation"
         /\ args' = [risk_score |-> risk_score,
                     escalation_prob |-> escalation_prob]
         /\ outcome' = "ok"
         /\ result' = GetRecommendation(risk_score, escalation_prob)
    /\ model_out' = NoCalls
    /\ esc_input' = <<>>
    /\ signal' = <<>>
    /\ UNCHANGED manager

CallExtractIndicators ==
    /\ op = "none"
    /\ instance = "set"
    /\ \E text \in Texts, language \in IndicatorLanguages :
         LET ind == ExtractIndicators(text, language)
         IN  /\ op' = "_extract_indicators"
             /\ args' = [text |-> Str(text), language |-> language]
             /\ outcome' = IF ind.exc = "none" THEN "ok" ELSE ind.exc
             /\ result' = IF ind.exc = "none" THEN ind.value ELSE NoResult
    /\ model_out' = NoCalls
    /\ esc_input' = <<>>
    /\ signal' = <<>>
    /\ UNCHANGED manager

CallExtractTextFeatures ==
    /\ op = "none"
    /\ instance = "set"
    /\ \E text \in FeatureTexts, language \in FeatureLanguages :
         LET f == ExtractTextFeatures(text, language)
         IN  /\ op' = "_extract_text_features"
             /\ args' = [text |-> Str(text), language |-> language]
             /\ outcome' = IF f.exc = "none" THEN "ok" ELSE f.exc
             /\ result' = IF f.exc = "none" THEN f.value ELSE NoResult
    /\ model_out' = NoCalls
    /\ esc_input' = <<>>
    /\ signal' = <<>>
    /\ UNCHANGED manager

CallPredictEscalation ==
    /\ op = "none"
    /\ instance = "set"
    /\ \E features \in FeatureLists,
          e \in Returns(escalation_model, EscalationOutputs) :
         /\ op' = "predict_escalation"
         /\ args' = [features |-> features]
         /\ model_out' = [NoCalls EXCEPT !.escalation = e]
         /\ esc_input' = IF escalation_model
                         THEN <<EscalationInput(features)>>
                         ELSE <<>>
         /\ outcome' = "ok"
         /\ result' = PredictEscalation(e)
    /\ signal' = <<>>
    /\ UNCHANGED manager

(***************************************************************************)
(* initialize and load_models                                              *)
(***************************************************************************)
FileStates == {"present", "missing"}

\* load_models on a freshly constructed manager: the handles it leaves and
\* the exception that escapes it ("none" when it returns)
\* as load_models without the except clause for the second open
LoadModelsSecondUncaught(threat_file, cyber_file) ==
    IF threat_file = "missing"
    THEN [threat |-> FALSE, cyberbullying |-> FALSE, anomaly |-> FALSE,
          escalation |-> FALSE, exc |-> "none"]
    ELSE IF cyber_file = "missing"
    THEN [threat |-> TRUE, cyberbullying |-> FALSE, anomaly |-> FALSE,
          escalation |-> FALSE, exc |-> "FileNotFoundError"]
    ELSE [threat |-> TRUE, cyberbullying |-> TRUE, anomaly |-> TRUE,
          escalation |-> TRUE, exc |-> "AttributeError"]

\* as load_models with each open in a try of its own, a missing threat file
\* not stopping the loads that follow it
LoadModelsSkipsMissing(threat_file, cyber_file) ==
    IF cyber_file = "missing"
    THEN [threat |-> threat_file = "present", cyberbullying |-> FALSE,
          anomaly |-> FALSE, escalation |-> FALSE, exc |-> "none"]
    ELSE [threat |-> threat_file = "present", cyberbullying |-> TRUE,
          anomaly |-> TRUE, escalation |-> TRUE,
          exc |-> IF threat_file = "present" THEN "AttributeError"
                  ELSE "none"]

LoadModels(threat_file, cyber_file) ==
    IF threat_file = "missing"
    THEN \* FileNotFoundError at the first open, caught; train_models passes
         [threat |-> FALSE, cyberbullying |-> FALSE, anomaly |-> FALSE,
          escalation |-> FALSE, exc |-> "none"]
    ELSE IF cyber_file = "missing"
    THEN [threat |-> TRUE, cyberbullying |-> FALSE, anomaly |-> FALSE,
          escalation |-> FALSE, exc |-> "none"]
    ELSE \* self._load_language_models is not defined anywhere in the class
         [threat |-> TRUE, cyberbullying |-> TRUE, anomaly |-> TRUE,
          escalation |-> TRUE, exc |-> "AttributeError"]

\* as `if cls._instance is None` constructing a manager on every call
InstanceIsNoneAlways == TRUE

\* `if cls._instance is None`
InstanceIsNone == instance = "None"

Initialize ==
    /\ op = "none"
    /\ op' = "initialize"
    /\ model_out' = NoCalls
    /\ esc_input' = <<>>
    /\ signal' = <<>>
    /\ IF InstanceIsNone
       THEN \E threat_file \in FileStates, cyber_file \in FileStates :
              LET m == LoadModels(threat_file, cyber_file)
              IN  /\ instance' = "set"
                  /\ created' = created + 1
                  /\ scaler' = "unfitted"
                  /\ language_models' = {}
                  /\ load_calls' = load_calls + 1
                  /\ threat_model' = m.threat
                  /\ cyberbullying_model' = m.cyberbullying
                  /\ anomaly_model' = m.anomaly
                  /\ escalation_model' = m.escalation
                  /\ args' = [threat_file |-> threat_file,
                              cyber_file |-> cyber_file]
                  /\ outcome' = IF m.exc = "none" THEN "ok" ELSE m.exc
                  /\ result' = IF m.exc = "none" THEN "instance" ELSE NoResult
       ELSE /\ args' = [threat_file |-> "unread", cyber_file |-> "unread"]
            /\ outcome' = "ok"
            /\ result' = "instance"
            /\ UNCHANGED manager

\* the call returns to its caller: calls are synchronous and nothing of a
\* call outlives it except the manager's own fields
Return ==
    /\ op # "none"
    /\ op' = "none"
    /\ args' = <<>>
    /\ model_out' = NoCalls
    /\ esc_input' = <<>>
    /\ signal' = <<>>
    /\ outcome' = "ok"
    /\ result' = NoResult
    /\ UNCHANGED manager

(***************************************************************************)
(* Specifications                                                          *)
(***************************************************************************)
\* the process before the first initialize(): no manager exists
Init ==
    /\ instance = "None"
    /\ threat_model = FALSE
    /\ cyberbullying_model = FALSE
    /\ anomaly_model = FALSE
    /\ escalation_model = FALSE
    /\ created = 0
    /\ scaler = "unfitted"
    /\ language_models = {}
    /\ load_calls = 0
    /\ op = "none"
    /\ args = <<>>
    /\ model_out = NoCalls
    /\ esc_input = <<>>
    /\ signal = <<>>
    /\ outcome = "ok"
    /\ result = NoResult

Next ==
    \/ Initialize
    \/ AnalyzeText
    \/ CallGetRecommendation
    \/ CallExtractIndicators
    \/ CallPredictEscalation
    \/ Return

Spec == Init /\ [][Next]_vars

\* analyze_text as a function of the manager it is called on: a manager
\* holding any combination of model handles
InitAnyModels ==
    /\ instance = "set"
    /\ threat_model \in BOOLEAN
    /\ cyberbullying_model \in BOOLEAN
    /\ anomaly_model \in BOOLEAN
    /\ escalation_model \in BOOLEAN
    /\ created = 1
    /\ scaler = "unfitted"
    /\ language_models = {}
    /\ load_calls = 0
    /\ op = "none"
    /\ args = <<>>
    /\ model_out = NoCalls
    /\ esc_input = <<>>
    /\ signal = <<>>
    /\ outcome = "ok"
    /\ result = NoResult

NextAnalyze == AnalyzeText \/ Return

SpecAnyModels == InitAnyModels /\ [][NextAnalyze]_vars

\* _extract_text_features as a function of its arguments: called on the
\* manager initialize() leaves when the threat model file is missing
InitNoModels ==
    /\ instance = "set"
    /\ created = 1
    /\ threat_model = FALSE
    /\ cyberbullying_model = FALSE
    /\ anomaly_model = FALSE
    /\ escalation_model = FALSE
    /\ scaler = "unfitted"
    /\ language_models = {}
    /\ load_calls = 1
    /\ op = "none"
    /\ args = <<>>
    /\ model_out = NoCalls
    /\ esc_input = <<>>
    /\ signal = <<>>
    /\ outcome = "ok"
    /\ result = NoResult

NextFeatures == CallExtractTextFeatures \/ Return

SpecFeatures == InitNoModels /\ [][NextFeatures]_vars

(***************************************************************************)
(* Properties                                                              *)
(***************************************************************************)
Returned(name) == op = name /\ outcome = "ok"

\* a str argument of at least one character
NonEmptyStr(text) == text.kind = "str" /\ Len(text.chars) > 0

Actions == {"IMMEDIATE_ESCALATION", "SCHEDULE_POLICE_REVIEW",
            "MONITOR_CLOSELY", "SAFE_ZONE"}

\* C1: _get_recommendation returns exactly one of the four actions by first
\* match: IMMEDIATE_ESCALATION iff risk_score > 80 or escalation_prob > 0.8;
\* else SCHEDULE_POLICE_REVIEW iff risk_score > 60; else MONITOR_CLOSELY iff
\* risk_score > 40; else SAFE_ZONE.  The comparisons are strict: a risk_score
\* of exactly 80, 60 or 40 falls to the next lower tier (80.0 gives
\* SCHEDULE_POLICE_REVIEW, 80.01 gives IMMEDIATE_ESCALATION).
C1_RecommendationTiers ==
    Returned("_get_recommendation") =>
        LET r == args.risk_score
            e == args.escalation_prob
            top == r > 8000000 \/ e > 80000
        IN  /\ result \in Actions
            /\ (result = "IMMEDIATE_ESCALATION") <=> top
            /\ (result = "SCHEDULE_POLICE_REVIEW") <=> (~top /\ r > 6000000)
            /\ (result = "MONITOR_CLOSELY")
                   <=> (~top /\ r <= 6000000 /\ r > 4000000)
            /\ (result = "SAFE_ZONE") <=> (~top /\ r <= 4000000)
            /\ (r = 8000000 /\ e <= 80000)
                   => result = "SCHEDULE_POLICE_REVIEW"
            /\ (r = 6000000 /\ e <= 80000) => result = "MONITOR_CLOSELY"
            /\ (r = 4000000 /\ e <= 80000) => result = "SAFE_ZONE"
            /\ r = 8001000 => result = "IMMEDIATE_ESCALATION"

C1_Witness ==
    /\ Returned("_get_recommendation")
    /\ args.risk_score = 8000000
    /\ args.escalation_prob = 80000
    /\ result = "SCHEDULE_POLICE_REVIEW"

\* C2: every result of analyze_text has 0 <= risk_score <= 100 whenever the
\* threat and bullying probabilities are in [0,1] and the anomaly score is
\* in [-1,1].
C2_RiskScoreWithinRange ==
    ( /\ Returned("analyze_text")
      /\ signal.threat \in 0..100000
      /\ signal.bullying \in 0..100000
      /\ signal.anomaly \in (0 - 100000)..100000 )
    => result.risk_score \in 0..10000

\* C3: analyze_text("", 'en') with no models loaded completes without
\* raising and returns risk_score = 60.0.
C3_EmptyTextScoresSixty ==
    ( /\ op = "analyze_text"
      /\ args.text.kind = "str"
      /\ args.text.chars = <<>>
      /\ args.language = "en"
      /\ ~threat_model /\ ~cyberbullying_model
      /\ ~anomaly_model /\ ~escalation_model )
    => (outcome = "ok" /\ result.risk_score = 6000)

\* C4: whichever of the four models are absent, analyze_text on a non-empty
\* text does not raise; each absent model is not called and its neutral
\* default is used (threat 0.5, bullying 0.5, anomaly 0, escalation 0.5),
\* independently of the others; each present model is called and its
\* output is used.
C4_AbsentModelsDefault ==
    (op = "analyze_text" /\ NonEmptyStr(args.text)) =>
        /\ outcome = "ok"
        /\ (model_out.threat # <<>>) <=> threat_model
        /\ (model_out.bullying # <<>>) <=> cyberbullying_model
        /\ (model_out.anomaly # <<>>) <=> anomaly_model
        /\ (model_out.escalation # <<>>) <=> escalation_model
        /\ IF threat_model
           THEN signal.threat = model_out.threat[1]
           ELSE signal.threat = 50000 /\ result.threat_probability = 5000
        /\ IF cyberbullying_model
           THEN signal.bullying = model_out.bullying[1]
           ELSE signal.bullying = 50000 /\ result.bullying_probability = 5000
        /\ IF anomaly_model
           THEN signal.anomaly = model_out.anomaly[1]
           ELSE signal.anomaly = 0 /\ result.anomaly_score = 0
        /\ IF escalation_model
           THEN signal.escalation = model_out.escalation[1]
           ELSE /\ signal.escalation = 50000
                /\ result.escalation_probability = 5000

C4_Witness ==
    /\ Returned("analyze_text")
    /\ NonEmptyStr(args.text)
    /\ ~threat_model /\ cyberbullying_model
    /\ ~anomaly_model /\ escalation_model
    /\ result.threat_probability = 5000
    /\ result.bullying_probability = 10000
    /\ result.anomaly_score = 0
    /\ result.escalation_probability = 9000

\* C5: risk_score is 100 * (0.4*threat + 0.4*bullying + 0.2*(1 - anomaly))
\* rounded to 2 decimal places: the reported value is a multiple of 0.01
\* lying within 0.005 of the exact weighted sum of the call's sub-signals.
C5_RiskScoreFormula ==
    Returned("analyze_text") =>
        LET exact == 40 * signal.threat + 40 * signal.bullying
                     + 20 * (100000 - signal.anomaly)
            reported == 1000 * result.risk_score
        IN  /\ 2 * (reported - exact) <= 1000
            /\ 2 * (exact - reported) <= 1000

C5_Witness ==
    /\ Returned("analyze_text")
    /\ signal.threat = 50010
    /\ signal.bullying = 100000
    /\ signal.anomaly = 0 - 50000
    /\ result.risk_score = 9000

\* C6: recommended_action is the action the recommendation policy assigns
\* to the risk_score and escalation_probability reported in the same result;
\* a result with risk_score 80.0 and escalation_probability <= 0.8 never
\* carries IMMEDIATE_ESCALATION.
C6_ActionMatchesReportedScore ==
    Returned("analyze_text") =>
        /\ result.recommended_action
             = GetRecommendation(1000 * result.risk_score,
                                 10 * result.escalation_probability)
        /\ (result.risk_score = 8000 /\ result.escalation_probability <= 8000)
             => result.recommended_action # "IMMEDIATE_ESCALATION"

\* C7: escalation_predicted is true iff the escalation_probability field of
\* the same result is strictly greater than 0.7.
C7_PredictedIffReportedAbove ==
    Returned("analyze_text") =>
        (result.escalation_predicted <=> result.escalation_probability > 7000)

IndicatorOrder == <<"Violent language detected",
                    "Self-harm references detected",
                    "Excessive exclamation marks",
                    "Excessive capitalization (shouting)">>

Position(ind) == CHOOSE k \in 1..Len(IndicatorOrder) : IndicatorOrder[k] = ind

\* C8: for a non-empty text the list _extract_indicators returns is a
\* duplicate-free subsequence of the fixed order [violent language,
\* self-harm, exclamation marks, capitalization], wherever the triggers
\* occur in the text.
C8_IndicatorsInFixedOrder ==
    (Returned("_extract_indicators") /\ NonEmptyStr(args.text)) =>
        /\ \A i \in 1..Len(result) :
               \E k \in 1..Len(IndicatorOrder) : IndicatorOrder[k] = result[i]
        /\ \A i, j \in 1..Len(result) :
               i < j => Position(result[i]) < Position(result[j])

C8_Witness ==
    /\ Returned("_extract_indicators")
    /\ args.text.chars = <<"!", "!", "!", "!", "k", "i", "l", "l">>
    /\ result = <<"Violent language detected",
                  "Excessive exclamation marks">>

\* word occurs in text as a contiguous run of characters
Occurs(text, word) ==
    \E i \in 1..(Len(text) - Len(word) + 1) :
        SubSeq(text, i, i + Len(word) - 1) = word

Reports(ind) == \E i \in 1..Len(result) : result[i] = ind

\* C9: for a non-empty text each indicator is present iff its trigger holds
\* on the lowercased text: violent language iff it contains kill, murder or
\* harm; self-harm iff it contains die, suicide or "end life"; exclamation
\* marks iff the number of '!' is > 3; capitalization iff uppercase
\* characters / length > 0.5.  The triggers do not read the language.
C9_IndicatorsIffTriggers ==
    (Returned("_extract_indicators") /\ NonEmptyStr(args.text)) =>
        LET text == args.text.chars
            folded == [i \in 1..Len(text) |-> LowerOf(text[i])]
            bangs == Cardinality({i \in 1..Len(text) : text[i] = "!"})
            caps == Cardinality({i \in 1..Len(text) : IsUpper(text[i])})
        IN  /\ Reports("Violent language detected")
                <=> \/ Occurs(folded, <<"k","i","l","l">>)
                    \/ Occurs(folded, <<"m","u","r","d","e","r">>)
                    \/ Occurs(folded, <<"h","a","r","m">>)
            /\ Reports("Self-harm references detected")
                <=> \/ Occurs(folded, <<"d","i","e">>)
                    \/ Occurs(folded, <<"s","u","i","c","i","d","e">>)
                    \/ Occurs(folded, <<"e","n","d"," ","l","i","f","e">>)
            /\ Reports("Excessive exclamation marks") <=> bangs > 3
            /\ Reports("Excessive capitalization (shouting)")
                <=> 2 * caps > Len(text)

C9_Witness ==
    /\ Returned("_extract_indicators")
    /\ args.language = "ta"
    /\ args.text.chars = <<"K","I","L","L","k","i","l","l">>
    /\ result = <<"Violent language detected">>

\* C10: a text argument that is not a string is rejected with an
\* InvalidInputError, and no analysis result is produced for it.
C10_NonStringRejected ==
    (op = "analyze_text" /\ args.text.kind # "str") =>
        (outcome = "InvalidInputError" /\ result = NoResult)

\* C11: over any sequence of initialize() calls load_models is invoked
\* exactly once, by the first call; every call that returns yields the one
\* manager that call constructed; later calls neither construct nor reload
\* nor replace a model handle.
C11_LoadedOnce ==
    /\ [](/\ load_calls <= 1
          /\ created <= 1
          /\ (instance = "set") <=> (load_calls = 1 /\ created = 1)
          /\ Returned("initialize") => (result = "instance" /\ created = 1))
    /\ [][instance = "set" =>
             /\ instance' = instance
             /\ created' = created
             /\ load_calls' = load_calls
             /\ handles' = handles]_vars

C11_Witness ==
    /\ Returned("initialize")
    /\ args.threat_file = "unread"
    /\ load_calls = 1
    /\ created = 1
    /\ threat_model /\ ~cyberbullying_model

\* C12: analyze_text is stateless: a call, returning or raising, leaves the
\* class attribute and every field of the manager (the four model handles,
\* scaler, language_models) as they were.
C12_AnalyzeTextStateless ==
    [][op' = "analyze_text" =>
          /\ instance' = instance
          /\ created' = created
          /\ threat_model' = threat_model
          /\ cyberbullying_model' = cyberbullying_model
          /\ anomaly_model' = anomaly_model
          /\ escalation_model' = escalation_model
          /\ scaler' = scaler
          /\ language_models' = language_models
          /\ load_calls' = load_calls]_vars

C12_Witness ==
    /\ Returned("analyze_text")
    /\ threat_model /\ cyberbullying_model
    /\ anomaly_model /\ escalation_model
    /\ model_out.threat # <<>>
    /\ scaler = "unfitted"
    /\ language_models = {}

\* C13: load_models does not raise when a model file is missing: the
\* initialize() call that ran it returns the manager, whose handles are each
\* a loaded model or None.
C13_MissingFileDoesNotRaise ==
    ( /\ op = "initialize"
      /\ (args.threat_file = "missing" \/ args.cyber_file = "missing") )
    => /\ outcome = "ok"
       /\ result = "instance"
       /\ instance = "set"
       /\ \A h \in {threat_model, cyberbullying_model, anomaly_model,
                    escalation_model} : h \in BOOLEAN

C13_Witness ==
    /\ Returned("initialize")
    /\ args.threat_file = "present"
    /\ args.cyber_file = "missing"
    /\ threat_model
    /\ ~cyberbullying_model

\* C14: _extract_indicators on the empty string does not divide by zero: it
\* returns a list, without "Excessive capitalization (shouting)".
C14_EmptyTextIndicators ==
    (op = "_extract_indicators" /\ args.text.chars = <<>>)
    => /\ outcome = "ok"
       /\ ~Reports("Excessive capitalization (shouting)")

\* C15: the vector _extract_text_features returns has, for every text and
\* language, exactly the 10 entries predict_escalation's reshaping expects,
\* so that predict_escalation neither pads nor truncates it.
C15_FeatureLengthIsTen ==
    Returned("_extract_text_features") =>
        /\ Len(result) = 10
        /\ Len(EscalationInput(result)) = Len(result)

\* C16: given a feature list of any length n >= 0 and an escalation model,
\* predict_escalation gives the model exactly 10 time-steps: the first
\* min(n, 10) features in order, then zeros; with no escalation model it
\* returns 0.5 and gives no model anything.
C16_TenTimeSteps ==
    op = "predict_escalation" =>
        LET features == args.features
            n == Len(features)
            kept == IF n < 10 THEN n ELSE 10
        IN  /\ outcome = "ok"
            /\ IF escalation_model
               THEN /\ Len(esc_input) = 1
                    /\ Len(esc_input[1]) = 10
                    /\ \A i \in 1..kept : esc_input[1][i] = features[i]
                    /\ \A i \in (kept + 1)..10 : esc_input[1][i] = 0
                    /\ result = model_out.escalation[1]
               ELSE /\ esc_input = <<>>
                    /\ model_out.escalation = <<>>
                    /\ result = 50000

C16_Witness ==
    /\ Returned("predict_escalation")
    /\ escalation_model
    /\ args.features = <<5, 10, 15>>
    /\ esc_input = << <<5, 10, 15, 0, 0, 0, 0, 0, 0, 0>> >>
    /\ result = 90000

IsSpace(c) == c \in {" ", "\t", "\n"}

\* the positions at which a whitespace-separated word of text begins
WordStarts(text) ==
    {i \in 1..Len(text) :
        ~IsSpace(text[i]) /\ (i = 1 \/ IsSpace(text[i - 1]))}

\* the word of text beginning at position i, lowercased or as written
WordAt(text, i) ==
    LET j == CHOOSE j \in i..Len(text) :
                 /\ \A k \in i..j : ~IsSpace(text[k])
                 /\ (j = Len(text) \/ IsSpace(text[j + 1]))
    IN  SubSeq(text, i, j)

LowerWordAt(text, i) ==
    LET w == WordAt(text, i) IN [k \in 1..Len(w) |-> LowerOf(w[k])]

AtLeastOne(n) == IF n = 0 THEN 1 ELSE n

\* C17: for every text, the empty string included, and every language code
\* _extract_text_features returns 12 entries in the order text length, word
\* count, unique-word ratio, threat-word count, threat-word ratio, positive
\* count, negative count, negative minus positive, capitalization ratio,
\* '!' count, '?' count, repeated-character-run count.
C17_TwelveFeaturesInOrder ==
    op = "_extract_text_features" =>
        LET text == args.text.chars
            starts == WordStarts(text)
            n_words == Cardinality(starts)
            chars(c) == Cardinality({i \in 1..Len(text) : text[i] = c})
        IN  /\ outcome = "ok"
            /\ Len(result) = 12
            /\ result[1] = Len(text)
            /\ result[2] = n_words
            /\ result[3] = <<Cardinality({WordAt(text, i) : i \in starts}),
                             AtLeastOne(n_words)>>
            /\ result[4] \in Nat
            /\ result[5] = <<result[4], AtLeastOne(n_words)>>
            /\ result[6] = Cardinality({i \in starts :
                               LowerWordAt(text, i) \in PositiveWords})
            /\ result[7] = Cardinality({i \in starts :
                               LowerWordAt(text, i) \in NegativeWords})
            /\ result[8] = result[7] - result[6]
            /\ result[9] = <<Cardinality({i \in 1..Len(text) :
                                             IsUpper(text[i])}),
                             AtLeastOne(Len(text))>>
            /\ result[10] = chars("!")
            /\ result[11] = chars("?")
            /\ result[12] = Cardinality({i \in 1..(Len(text) - 2) :
                                /\ text[i] = text[i + 1]
                                /\ text[i] = text[i + 2]})

C17_Witness ==
    /\ Returned("_extract_text_features")
    /\ args.language = "en"
    /\ args.text.chars = <<"a", "a", "a", "a", "?">>
    /\ result = <<5, 1, <<1, 1>>, 0, <<0, 1>>, 0, 0, 0, <<0, 5>>, 0, 1, 2>>

\* C18: for the empty string and any language _extract_text_features does
\* not raise; the unique-word, threat-word and capitalization ratios are 0
\* over a denominator of 1, and every count is 0.
C18_EmptyTextFeatures ==
    (op = "_extract_text_features" /\ args.text.chars = <<>>) =>
        /\ outcome = "ok"
        /\ result = <<0, 0, <<0, 1>>, 0, <<0, 1>>, 0, 0, 0, <<0, 1>>,
                      0, 0, 0>>

C18_Witness ==
    /\ Returned("_extract_text_features")
    /\ args.text.chars = <<>>
    /\ args.language = "ta"
    /\ result[3] = <<0, 1>>
    /\ result[9] = <<0, 1>>

C19_EnglishKeywords == {<<"k", "i", "l", "l">>,
                        <<"h", "u", "r", "t">>,
                        <<"d", "i", "e">>,
                        <<"t", "h", "r", "e", "a", "t">>,
                        <<"h", "a", "r", "m">>,
                        <<"d", "a", "n", "g", "e", "r">>,
                        <<"a", "t", "t", "a", "c", "k">>}

\* C19: the threat-word count is the number of whitespace-separated words
\* of the text, counted with repetition, whose lowercased form is in the
\* keyword set of the language: that language's own set for each of the 12
\* supported codes, the English set for any other code.
C19_ThreatWordCount ==
    Returned("_extract_text_features") =>
        LET text == args.text.chars
            keywords == IF args.language \in
                              {"en", "hi", "ta", "te", "ml", "kn", "mr",
                               "bn", "gu", "pa", "or", "ur"}
                        THEN ThreatKeywordTable(args.language)
                        ELSE C19_EnglishKeywords
        IN  /\ result[4] = Cardinality({i \in WordStarts(text) :
                               LowerWordAt(text, i) \in keywords})
            /\ ThreatKeywordTable("en") = C19_EnglishKeywords

C19_Witness ==
    /\ Returned("_extract_text_features")
    /\ args.language = "hi"
    /\ args.text.chars = <<"k", "i", "l", "l", " ",
                           "U+092E", "U+093E", "U+0930">>
    /\ result[2] = 2
    /\ result[4] = 1

\* C20: the features satisfy threat-word count <= word count, positive
\* count <= word count, negative count <= word count; the unique-word,
\* threat-word and capitalization ratios lie in [0,1]; and the 'negative
\* minus positive' feature is negative count minus positive count.
C20_FeatureRanges ==
    Returned("_extract_text_features") =>
        /\ result[4] <= result[2]
        /\ result[6] <= result[2]
        /\ result[7] <= result[2]
        /\ \A k \in {3, 5, 9} :
               /\ result[k][2] > 0
               /\ 0 <= result[k][1]
               /\ result[k][1] <= result[k][2]
        /\ result[8] = result[7] - result[6]

C20_Witness ==
    /\ Returned("_extract_text_features")
    /\ args.language = "en"
    /\ args.text.chars = <<"K", "I", "L", "L", " ", "g", "o", "o", "d">>
    /\ result[2] = 2
    /\ result[4] = 1
    /\ result[6] = 1
    /\ result[7] = 1
    /\ result[8] = 0
    /\ result[9] = <<4, 9>>

\* C21: load_models sets the handles in the order threat, cyberbullying,
\* anomaly, escalation and stops at the first missing file: a handle is set
\* only if every handle before it in that order is set; after the
\* initialize() call that ran it, a missing threat file has left all four
\* handles absent, whatever the state of the cyberbullying file, and a
\* missing cyberbullying file has left the threat model alone loaded.
C21_HandlesSetInOrder ==
    /\ cyberbullying_model => threat_model
    /\ anomaly_model => cyberbullying_model
    /\ escalation_model => anomaly_model
    /\ (op = "initialize" /\ args.threat_file = "missing") =>
           handles = <<FALSE, FALSE, FALSE, FALSE>>
    /\ ( /\ op = "initialize"
         /\ args.threat_file = "present"
         /\ args.cyber_file = "missing" ) =>
           handles = <<TRUE, FALSE, FALSE, FALSE>>

C21_Witness ==
    /\ Returned("initialize")
    /\ args.threat_file = "missing"
    /\ args.cyber_file = "present"
    /\ instance = "set"
    /\ load_calls = 1
    /\ handles = <<FALSE, FALSE, FALSE, FALSE>>

====
